---- MODULE Spec2Model ----
(***************************************************************************)
(* Appointment service: the five lifecycle commands of                     *)
(* src/src/controllers/appointment.controller.js (book, reschedule,        *)
(* cancel, complete, no-show) run by concurrent request workers against    *)
(* the appointments table of the README schema (PostgreSQL, READ           *)
(* COMMITTED, UNIQUE(doctor_id, appointment_date, start_time)).            *)
(*                                                                         *)
(* Each action is one resumption of an async handler: the database or      *)
(* collaborator answers the awaited call, and the handler runs on to its   *)
(* next await.  Instants are milliseconds since midnight of day 0; the     *)
(* request's appointment_date / start_time and the stored DATE / TIME      *)
(* columns are the ISO values of the README API, so that                   *)
(* new Date(`${date}T${time}`) denotes that instant.                       *)
(***************************************************************************)
EXTENDS Integers, FiniteSets, Sequences, TLC

VARIABLES appts, nextId, now, pc, cmd, loc, started, harness

vars == <<appts, nextId, now, pc, cmd, loc, started, harness>>

(***************************************************************************)
(* Bounds of the model.                                                    *)
(***************************************************************************)
MaxId == 2
MaxCmds == 4

(***************************************************************************)
(* Program constants.                                                      *)
(***************************************************************************)
HourMs == 3600000
MaxReschedules == 2
CutoffHours == 1
FullRefundHours == 24
PartialRefundHours == 6

DayMs == 24 * HourMs
HalfHourMs == HourMs \div 2

(***************************************************************************)
(* Input domains.                                                          *)
(***************************************************************************)
Workers == {"w1", "w2"}
Patients == {1}
Doctors == {1, 2}
\* races are explored on one provider and well-formed intervals, serial
\* runs on both providers and all intervals
RaceDoctors == {1}
Dates == {1}
T1000 == 10 * HourMs
T1030 == T1000 + HalfHourMs
T1100 == 11 * HourMs
Times == {T1000, T1030, T1100}
\* well-formed request intervals (end_time after start_time)
ValidIntervals == {<<T1000, T1030>>, <<T1030, T1100>>, <<T1000, T1100>>}
\* the validator only checks the HH:MM pattern, so these are accepted too
DegenerateIntervals == {<<T1100, T1000>>}
Intervals == ValidIntervals \cup DegenerateIntervals
Ids == 1..MaxId
\* the instants the wall clock is observed at: 24h, 6h, 1h and 0h before
\* the 10:30 slot of day 1, half an hour to either side for 10:00 / 11:00
Instants == {T1030, DayMs + 4 * HourMs + HalfHourMs,
             DayMs + 9 * HourMs + HalfHourMs, DayMs + T1030}
Statuses == {"SCHEDULED", "COMPLETED", "CANCELLED", "NO_SHOW"}

NoRow == [id |-> 0, patient |-> 0, doctor |-> 0, date |-> 0, start |-> 0,
          end |-> 0, status |-> "NONE", count |-> 0, version |-> 0,
          notes |-> << >>]
NoCmd == [op |-> "none", id |-> 0, patient |-> 0, doctor |-> 0, date |-> 0,
          start |-> 0, end |-> 0]
\* a handler's variables: the row it selected, the answers of the patient
\* and the provider service, the row its INSERT / UPDATE returned, the
\* refund tier, the response, the state of its transaction, the requests
\* it has issued to the billing and notification services, and the pooled
\* client it took with pool.connect() and gives back with client.release()
NoLoc == [existing |-> NoRow, patient |-> "none", doctor |-> "none",
          data |-> NoRow, refund |-> "none", code |-> "none",
          txn |-> "none", sent |-> {}, client |-> "none"]

(***************************************************************************)
(* Pure helpers of the controller.                                         *)
(***************************************************************************)
\* new Date(`${appointment_date}T${start_time}`)
DateTime(date, time) == date * DayMs + time

\* variant: the present instant counts as the future
NotInFuture_Strict(dt, t) == dt < t

\* appointmentDateTime <= new Date()
NotInFuture(dt, t) == dt <= t

\* variant: only rows that start inside the requested window conflict
SlotConflictRow_StartOnly(r, doctorId, date, startTime, endTime, excludeId) ==
    /\ r.doctor = doctorId
    /\ r.date = date
    /\ r.status \notin {"CANCELLED", "COMPLETED"}
    /\ (excludeId # 0 => r.id # excludeId)
    /\ (r.start >= startTime /\ r.start < endTime)

\* variant: closed intervals, touching end points conflict
SlotConflictRow_Closed(r, doctorId, date, startTime, endTime, excludeId) ==
    /\ r.doctor = doctorId
    /\ r.date = date
    /\ r.status \notin {"CANCELLED", "COMPLETED"}
    /\ (excludeId # 0 => r.id # excludeId)
    /\ (r.start <= endTime /\ r.end >= startTime)

\* variant: only SCHEDULED rows occupy their slot
SlotConflictRow_Booked(r, doctorId, date, startTime, endTime, excludeId) ==
    /\ r.doctor = doctorId
    /\ r.date = date
    /\ r.status \notin {"CANCELLED", "COMPLETED", "NO_SHOW"}
    /\ (excludeId # 0 => r.id # excludeId)
    /\ \/ (r.start < endTime /\ r.end > startTime)
       \/ (r.start >= startTime /\ r.start < endTime)

\* the WHERE clause of checkSlotConflict for one stored row
SlotConflictRow(r, doctorId, date, startTime, endTime, excludeId) ==
    /\ r.doctor = doctorId
    /\ r.date = date
    /\ r.status \notin {"CANCELLED", "COMPLETED"}
    /\ (excludeId # 0 => r.id # excludeId)
    /\ \/ (r.start < endTime /\ r.end > startTime)
       \/ (r.start >= startTime /\ r.start < endTime)

\* checkSlotConflict: result.rows.length > 0 over the committed rows
checkSlotConflict(rows, doctorId, date, startTime, endTime, excludeId) ==
    \E i \in DOMAIN rows :
        /\ rows[i] # NoRow
        /\ SlotConflictRow(rows[i], doctorId, date, startTime, endTime,
                           excludeId)

\* existing.status === 'CANCELLED' || existing.status === 'COMPLETED'
RescheduleStatusRejected(status) == status \in {"CANCELLED", "COMPLETED"}

\* variant: the limit is reached one reschedule later
RescheduleLimitReached_Late(count) == count > MaxReschedules

\* existing.reschedule_count >= 2
RescheduleLimitReached(count) == count >= MaxReschedules

\* variant: exactly one hour ahead is inside the cutoff
WithinCutoff_Inclusive(dt, t) == dt - t <= CutoffHours * HourMs

\* hoursDiff < 1, hoursDiff = (existingDateTime - now) / (1000 * 60 * 60)
WithinCutoff(dt, t) == dt - t < CutoffHours * HourMs

\* variant: exactly six hours ahead falls into the fee tier
RefundPolicy_ExclusivePartial(dt, t) ==
    IF dt - t >= FullRefundHours * HourMs THEN "FULL_REFUND"
    ELSE IF dt - t > PartialRefundHours * HourMs THEN "PARTIAL_REFUND"
    ELSE "CANCELLATION_FEE"

\* the refund tier of cancelAppointment
RefundPolicy(dt, t) ==
    IF dt - t >= FullRefundHours * HourMs THEN "FULL_REFUND"
    ELSE IF dt - t >= PartialRefundHours * HourMs THEN "PARTIAL_REFUND"
    ELSE "CANCELLATION_FEE"

\* the error code cancelAppointment throws for a status, "none" if it goes on
CancelStatusError(status) ==
    IF status = "CANCELLED" THEN "ALREADY_CANCELLED"
    ELSE IF status = "COMPLETED" THEN "INVALID_STATUS"
    ELSE "none"

\* variant: only a cancelled appointment is rejected
NotScheduled_CancelledOnly(status) == status = "CANCELLED"

\* appointment.status !== 'SCHEDULED' (completeAppointment, markNoShow)
NotScheduled(status) == status # "SCHEDULED"

(***************************************************************************)
(* The store.                                                              *)
(***************************************************************************)
\* the row a worker has written in its open transaction and not committed
Pending(w) == IF pc[w] = "commit" THEN loc[w].data ELSE NoRow

\* UNIQUE(doctor_id, appointment_date, start_time)
SameKey(r1, r2) ==
    r1.doctor = r2.doctor /\ r1.date = r2.date /\ r1.start = r2.start

\* the write of w has to wait: another open transaction holds a write on
\* the same row or on the same unique key
WriteBlocked(w, r) ==
    \E v \in Workers \ {w} :
        /\ Pending(v) # NoRow
        /\ (Pending(v).id = r.id \/ SameKey(Pending(v), r))

\* a committed row other than r itself already has r's unique key
UniqueViolation(r) ==
    \E i \in Ids : appts[i] # NoRow /\ i # r.id /\ SameKey(appts[i], r)

\* INSERT ... VALUES (..., 'SCHEDULED') with the column defaults
NewRow(id, c) ==
    [id |-> id, patient |-> c.patient, doctor |-> c.doctor, date |-> c.date,
     start |-> c.start, end |-> c.end, status |-> "SCHEDULED",
     count |-> 0, version |-> 1, notes |-> << >>]

\* SET status = 'CANCELLED', notes = CONCAT(COALESCE(notes, ''),
\* E'\nCancelled: ', ...): the notes are the sequence of their lines
CancelledRow(r) ==
    [r EXCEPT !.status = "CANCELLED", !.notes = Append(r.notes, "Cancelled")]

\* SET status = 'COMPLETED', notes = CONCAT(COALESCE(notes, ''),
\* E'\nCompletion notes: ', ...)
CompletedRow(r) ==
    [r EXCEPT !.status = "COMPLETED",
              !.notes = Append(r.notes, "Completion notes")]

\* variant: the complete UPDATE replaces the notes
UpdatedRow_OverwriteNotes(r, c) ==
    CASE c.op = "reschedule" ->
           [r EXCEPT !.date = c.date, !.start = c.start, !.end = c.end,
                     !.count = r.count + 1, !.version = r.version + 1,
                     !.notes = Append(r.notes, "Rescheduled")]
      [] c.op = "cancel" -> CancelledRow(r)
      [] c.op = "complete" ->
           [r EXCEPT !.status = "COMPLETED", !.notes = <<"Completion notes">>]
      [] c.op = "noshow" -> [r EXCEPT !.status = "NO_SHOW"]

\* variant: the reschedule UPDATE also sets status = 'SCHEDULED'
UpdatedRow_Reopen(r, c) ==
    CASE c.op = "reschedule" ->
           [r EXCEPT !.date = c.date, !.start = c.start, !.end = c.end,
                     !.count = r.count + 1, !.version = r.version + 1,
                     !.notes = Append(r.notes, "Rescheduled"),
                     !.status = "SCHEDULED"]
      [] c.op = "cancel" -> CancelledRow(r)
      [] c.op = "complete" -> CompletedRow(r)
      [] c.op = "noshow" -> [r EXCEPT !.status = "NO_SHOW"]

\* variant: the reschedule UPDATE leaves end_time as it was
UpdatedRow_KeepEnd(r, c) ==
    CASE c.op = "reschedule" ->
           [r EXCEPT !.date = c.date, !.start = c.start,
                     !.count = r.count + 1, !.version = r.version + 1,
                     !.notes = Append(r.notes, "Rescheduled")]
      [] c.op = "cancel" -> CancelledRow(r)
      [] c.op = "complete" -> CompletedRow(r)
      [] c.op = "noshow" -> [r EXCEPT !.status = "NO_SHOW"]

\* variant: the cancel UPDATE increments the version too
UpdatedRow_CancelBumps(r, c) ==
    CASE c.op = "reschedule" ->
           [r EXCEPT !.date = c.date, !.start = c.start, !.end = c.end,
                     !.count = r.count + 1, !.version = r.version + 1,
                     !.notes = Append(r.notes, "Rescheduled")]
      [] c.op = "cancel" ->
           [CancelledRow(r) EXCEPT !.version = r.version + 1]
      [] c.op = "complete" -> CompletedRow(r)
      [] c.op = "noshow" -> [r EXCEPT !.status = "NO_SHOW"]

\* the SET clause of each UPDATE, applied to the current row version
UpdatedRow(r, c) ==
    CASE c.op = "reschedule" ->
           [r EXCEPT !.date = c.date, !.start = c.start, !.end = c.end,
                     !.count = r.count + 1, !.version = r.version + 1,
                     !.notes = Append(r.notes, "Rescheduled")]
      [] c.op = "cancel" -> CancelledRow(r)
      [] c.op = "complete" -> CompletedRow(r)
      [] c.op = "noshow" -> [r EXCEPT !.status = "NO_SHOW"]

(***************************************************************************)
(* Initial state: empty table (appts[i] = NoRow: no row with id i), all    *)
(* workers idle.                                                           *)
(***************************************************************************)
InitCommon ==
    /\ appts = [i \in Ids |-> NoRow]
    /\ nextId = 1
    /\ now = T1030
    /\ pc = [w \in Workers |-> "idle"]
    /\ cmd = [w \in Workers |-> NoCmd]
    /\ loc = [w \in Workers |-> NoLoc]
    /\ started = 0

Init == InitCommon /\ harness = "concurrent"

\* commands are issued one at a time
InitSerial == InitCommon /\ harness = "serial"

(***************************************************************************)
(* Steps shared by the handlers.                                           *)
(***************************************************************************)
\* variant: the catch block never sees a 404 (error.status is read
\* instead of error.response.status)
ValidationError_Never404(answer, service) == "SERVICE_UNAVAILABLE"

\* the catch block of validatePatient / validateDoctor: 404 of the
\* answer's response gives the not-found code, anything else 503
ValidationError(answer, service) ==
    IF answer = "404"
    THEN (IF service = "patient" THEN "PATIENT_NOT_FOUND"
          ELSE "DOCTOR_NOT_FOUND")
    ELSE "SERVICE_UNAVAILABLE"

\* a validation call throws:
\* catch (error) { ROLLBACK; next(error) } finally { client.release() }
Fail(w, answer, service) ==
    /\ pc' = [pc EXCEPT ![w] = "done"]
    /\ loc' = [loc EXCEPT ![w][service] = answer,
                          ![w].code = ValidationError(answer, service),
                          ![w].txn = "rolledback",
                          ![w].client = "released"]
    /\ UNCHANGED <<appts, nextId, now, cmd, started, harness>>

\* variant: cancelAppointment posts to the billing service before COMMIT
SentBeforeCommit_CancelBills(c) ==
    IF c.op = "cancel" THEN {"billing"} ELSE {}

\* the requests a handler issues between its write and its COMMIT: none
SentBeforeCommit(c) == {}

\* the requests a handler issues between COMMIT and its next await: book
\* (when doctor.name can be read) and reschedule call sendNotification,
\* cancel, complete and no-show post to the billing service
SentAfterCommit(c, l) ==
    CASE c.op = "book" ->
           IF l.doctor = "undefined" THEN {} ELSE {"notification"}
      [] c.op = "reschedule" -> {"notification"}
      [] OTHER -> {"billing"}

\* the requests a handler issues after the billing call has settled:
\* cancelAppointment calls sendNotification
SentAfterBilling(c) == IF c.op = "cancel" THEN {"notification"} ELSE {}

\* a worker takes a request when it is free; the second worker is used
\* only while the first is busy, and never under the serial harness
CanStart(w) ==
    /\ pc[w] = "idle"
    /\ started < MaxCmds
    /\ (w = "w2" => pc["w1"] # "idle")
    /\ (harness = "serial" => \A v \in Workers : pc[v] = "idle")

\* the bookings in flight that have not drawn their serial id yet
IdsToDraw ==
    {v \in Workers : cmd[v].op = "book" /\ pc[v] \notin {"commit", "done"}}

RequestIntervals == IF harness = "serial" THEN Intervals ELSE ValidIntervals

\* provider ids are interchangeable: serial runs make their first stored
\* booking for provider 1
RequestDoctors ==
    IF harness = "serial"
    THEN {d \in Doctors :
            d = 1 \/ \E i \in Ids : appts[i] # NoRow /\ appts[i].doctor = 1}
    ELSE RaceDoctors

\* the wall clock moves on
Tick ==
    /\ \E t \in Instants : t > now /\ now' = t
    /\ UNCHANGED <<appts, nextId, pc, cmd, loc, started, harness>>

\* the response has been sent and the worker is free again
Finish(w) ==
    /\ pc[w] = "done"
    /\ pc' = [pc EXCEPT ![w] = "idle"]
    /\ cmd' = [cmd EXCEPT ![w] = NoCmd]
    /\ loc' = [loc EXCEPT ![w] = NoLoc]
    /\ UNCHANGED <<appts, nextId, now, started, harness>>

(***************************************************************************)
(* bookAppointment                                                         *)
(***************************************************************************)
\* pool.connect(), BEGIN, destructure req.body
StartBook(w) ==
    /\ CanStart(w)
    /\ nextId + Cardinality(IdsToDraw) <= MaxId
    /\ \E p \in Patients, d \in RequestDoctors, dt \in Dates, iv \in RequestIntervals :
          cmd' = [cmd EXCEPT ![w] =
                    [op |-> "book", id |-> 0, patient |-> p, doctor |-> d,
                     date |-> dt, start |-> iv[1], end |-> iv[2]]]
    /\ pc' = [pc EXCEPT ![w] = "validatePatient"]
    /\ started' = started + 1
    /\ loc' = [loc EXCEPT ![w].txn = "open", ![w].client = "held"]
    /\ UNCHANGED <<appts, nextId, now, harness>>

\* await this.validatePatient(patient_id)
ValidatePatient(w) ==
    /\ pc[w] = "validatePatient"
    /\ \E answer \in {"ok", "404", "error"} :
          IF answer = "ok"
          THEN /\ pc' = [pc EXCEPT ![w] = "validateDoctor"]
               /\ loc' = [loc EXCEPT ![w].patient = answer]
               /\ UNCHANGED <<appts, nextId, now, cmd, started, harness>>
          ELSE Fail(w, answer, "patient")

\* await this.validateDoctor(doctor_id), then the future check
ValidateDoctor(w) ==
    /\ pc[w] = "validateDoctor"
    /\ \E answer \in {"named", "undefined", "404", "error"} :
          CASE answer \in {"named", "undefined"} ->
                 IF NotInFuture(DateTime(cmd[w].date, cmd[w].start), now)
                 THEN /\ pc' = [pc EXCEPT ![w] = "done"]
                      /\ loc' = [loc EXCEPT ![w].doctor = answer,
                                            ![w].code = "INVALID_DATE",
                                            ![w].txn = "rolledback",
                                            ![w].client = "released"]
                      /\ UNCHANGED <<appts, nextId, now, cmd, started, harness>>
                 ELSE /\ pc' = [pc EXCEPT ![w] = "checkSlot"]
                      /\ loc' = [loc EXCEPT ![w].doctor = answer]
                      /\ UNCHANGED <<appts, nextId, now, cmd, started, harness>>
            [] OTHER -> Fail(w, answer, "doctor")

\* await this.checkSlotConflict(...) on a pool connection of its own: it
\* sees the committed rows; used by book (no excluded id) and reschedule
CheckSlot(w) ==
    /\ pc[w] = "checkSlot"
    /\ LET c == cmd[w]
           doctorId == IF c.op = "book" THEN c.doctor
                       ELSE loc[w].existing.doctor
           found == checkSlotConflict(appts, doctorId, c.date, c.start,
                                      c.end, c.id)
       IN IF found
          THEN /\ pc' = [pc EXCEPT ![w] = "done"]
               /\ loc' = [loc EXCEPT ![w].code = "SLOT_CONFLICT",
                                     ![w].txn = "rolledback",
                                     ![w].client = "released"]
          ELSE /\ pc' = [pc EXCEPT ![w] = "write"]
               /\ loc' = loc
    /\ UNCHANGED <<appts, nextId, now, cmd, started, harness>>

\* await client.query(INSERT ... RETURNING *): the serial id is drawn even
\* when the unique constraint then rejects the row
Insert(w) ==
    /\ pc[w] = "write"
    /\ cmd[w].op = "book"
    /\ LET r == NewRow(nextId, cmd[w])
       IN /\ ~WriteBlocked(w, r)
          /\ nextId' = nextId + 1
          /\ IF UniqueViolation(r)
             THEN /\ pc' = [pc EXCEPT ![w] = "done"]
                  /\ loc' = [loc EXCEPT ![w].code = "UNIQUE_VIOLATION",
                                        ![w].txn = "rolledback",
                                        ![w].client = "released"]
             ELSE /\ pc' = [pc EXCEPT ![w] = "commit"]
                  /\ loc' = [loc EXCEPT
                               ![w].data = r,
                               ![w].sent = SentBeforeCommit(cmd[w])]
    /\ UNCHANGED <<appts, now, cmd, started, harness>>

(***************************************************************************)
(* rescheduleAppointment, cancelAppointment, completeAppointment,          *)
(* markNoShow                                                              *)
(***************************************************************************)
StartReschedule(w) ==
    /\ CanStart(w)
    /\ \E i \in Ids, dt \in Dates, iv \in RequestIntervals :
          cmd' = [cmd EXCEPT ![w] =
                    [op |-> "reschedule", id |-> i, patient |-> 0,
                     doctor |-> 0, date |-> dt, start |-> iv[1],
                     end |-> iv[2]]]
    /\ pc' = [pc EXCEPT ![w] = "select"]
    /\ started' = started + 1
    /\ loc' = [loc EXCEPT ![w].txn = "open", ![w].client = "held"]
    /\ UNCHANGED <<appts, nextId, now, harness>>

\* the request of cancel, complete and no-show: the id of req.params
StatusRequest(op, i) == [NoCmd EXCEPT !.op = op, !.id = i]

StartCancel(w) ==
    /\ CanStart(w)
    /\ \E i \in Ids : cmd' = [cmd EXCEPT ![w] = StatusRequest("cancel", i)]
    /\ pc' = [pc EXCEPT ![w] = "select"]
    /\ started' = started + 1
    /\ loc' = [loc EXCEPT ![w].txn = "open", ![w].client = "held"]
    /\ UNCHANGED <<appts, nextId, now, harness>>

StartComplete(w) ==
    /\ CanStart(w)
    /\ \E i \in Ids : cmd' = [cmd EXCEPT ![w] = StatusRequest("complete", i)]
    /\ pc' = [pc EXCEPT ![w] = "select"]
    /\ started' = started + 1
    /\ loc' = [loc EXCEPT ![w].txn = "open", ![w].client = "held"]
    /\ UNCHANGED <<appts, nextId, now, harness>>

StartNoShow(w) ==
    /\ CanStart(w)
    /\ \E i \in Ids : cmd' = [cmd EXCEPT ![w] = StatusRequest("noshow", i)]
    /\ pc' = [pc EXCEPT ![w] = "select"]
    /\ started' = started + 1
    /\ loc' = [loc EXCEPT ![w].txn = "open", ![w].client = "held"]
    /\ UNCHANGED <<appts, nextId, now, harness>>

\* the checks rescheduleAppointment makes on the row it read, in order;
\* "none" when it goes on to the conflict check
RescheduleError(existing, c, t) ==
    IF RescheduleStatusRejected(existing.status) THEN "INVALID_STATUS"
    ELSE IF RescheduleLimitReached(existing.count)
         THEN "MAX_RESCHEDULE_EXCEEDED"
    ELSE IF WithinCutoff(DateTime(existing.date, existing.start), t)
         THEN "CUTOFF_TIME_EXCEEDED"
    ELSE IF NotInFuture(DateTime(c.date, c.start), t) THEN "INVALID_DATE"
    ELSE "none"

\* the precondition error of each handler on the row it read
PreconditionError(existing, c, t) ==
    CASE c.op = "reschedule" -> RescheduleError(existing, c, t)
      [] c.op = "cancel" -> CancelStatusError(existing.status)
      [] c.op \in {"complete", "noshow"} ->
           IF NotScheduled(existing.status) THEN "INVALID_STATUS" ELSE "none"

\* the columns of the selected row the handler reads again later:
\* cancelAppointment its date and start time (refund tier), all of them
\* the ids, which no command changes
Identity(r) ==
    [NoRow EXCEPT !.id = r.id, !.patient = r.patient, !.doctor = r.doctor]

Kept(r, op) == IF op = "cancel" THEN r ELSE Identity(r)

\* SELECT * FROM appointments WHERE appointment_id = $1, then the
\* handler's checks up to its next await
Select(w) ==
    /\ pc[w] = "select"
    /\ LET c == cmd[w]
           existing == appts[c.id]
           err == PreconditionError(existing, c, now)
       IN IF existing = NoRow
          THEN /\ pc' = [pc EXCEPT ![w] = "done"]
               /\ loc' = [loc EXCEPT ![w].code = "APPOINTMENT_NOT_FOUND",
                                     ![w].txn = "rolledback",
                                     ![w].client = "released"]
          ELSE /\ pc' = [pc EXCEPT ![w] =
                           IF err # "none" THEN "done"
                           ELSE IF c.op = "reschedule" THEN "checkSlot"
                           ELSE "write"]
               /\ loc' = [loc EXCEPT ![w].existing = Kept(existing, c.op),
                                     ![w].code = err,
                                     ![w].txn = IF err # "none"
                                                THEN "rolledback" ELSE @,
                                     ![w].client = IF err # "none"
                                                   THEN "released" ELSE @]
    /\ UNCHANGED <<appts, nextId, now, cmd, started, harness>>

\* await client.query(UPDATE ... WHERE appointment_id = $n RETURNING *):
\* waits for the row lock, then updates the latest committed version of
\* the row; cancelAppointment computes the refund tier before its COMMIT
Update(w) ==
    /\ pc[w] = "write"
    /\ cmd[w].op # "book"
    /\ LET r == UpdatedRow(appts[cmd[w].id], cmd[w])
       IN /\ ~WriteBlocked(w, r)
          /\ IF UniqueViolation(r)
             THEN /\ pc' = [pc EXCEPT ![w] = "done"]
                  /\ loc' = [loc EXCEPT ![w].code = "UNIQUE_VIOLATION",
                                        ![w].txn = "rolledback",
                                        ![w].client = "released"]
             ELSE /\ pc' = [pc EXCEPT ![w] = "commit"]
                  /\ loc' = [loc EXCEPT
                       ![w].data = r,
                       ![w].sent = SentBeforeCommit(cmd[w]),
                       ![w].existing = Identity(@),
                       ![w].refund =
                          IF cmd[w].op = "cancel"
                          THEN RefundPolicy(
                                 DateTime(loc[w].existing.date,
                                          loc[w].existing.start), now)
                          ELSE @]
    /\ UNCHANGED <<appts, nextId, now, cmd, started, harness>>

\* variant: rescheduleAppointment makes its conflict check after COMMIT
AfterCommit_LateCheck(c, l) ==
    CASE c.op = "book" ->
           IF l.doctor = "undefined" THEN [pc |-> "done", code |-> "TYPE_ERROR"]
           ELSE [pc |-> "done", code |-> "OK"]
      [] c.op = "reschedule" -> [pc |-> "done", code |-> "SLOT_CONFLICT"]
      [] OTHER -> [pc |-> "billing", code |-> "none"]

\* what the handler does between COMMIT and its next await: book reads
\* doctor.name for the notification text
AfterCommit(c, l) ==
    CASE c.op = "book" ->
           IF l.doctor = "undefined" THEN [pc |-> "done", code |-> "TYPE_ERROR"]
           ELSE [pc |-> "done", code |-> "OK"]
      [] c.op = "reschedule" -> [pc |-> "done", code |-> "OK"]
      [] OTHER -> [pc |-> "billing", code |-> "none"]

\* await client.query('COMMIT'): the written row becomes visible
Commit(w) ==
    /\ pc[w] = "commit"
    /\ appts' = [appts EXCEPT ![loc[w].data.id] = loc[w].data]
    /\ pc' = [pc EXCEPT ![w] = AfterCommit(cmd[w], loc[w]).pc]
    /\ loc' = [loc EXCEPT
                 ![w].code = AfterCommit(cmd[w], loc[w]).code,
                 ![w].txn = "committed",
                 ![w].client = IF AfterCommit(cmd[w], loc[w]).pc = "done"
                               THEN "released" ELSE @,
                 ![w].sent = @ \cup SentAfterCommit(cmd[w], loc[w])]
    /\ UNCHANGED <<nextId, now, cmd, started, harness>>

\* await axios.post(BILLING_SERVICE_URL ...) inside try/catch: either
\* answer leads to the success response
Billing(w) ==
    /\ pc[w] = "billing"
    /\ \E answer \in {"ok", "error"} :
          /\ pc' = [pc EXCEPT ![w] = "done"]
          /\ loc' = [loc EXCEPT
                       ![w].code = "OK",
                       ![w].client = "released",
                       ![w].sent = @ \cup SentAfterBilling(cmd[w])]
    /\ UNCHANGED <<appts, nextId, now, cmd, started, harness>>

Next ==
    \/ Tick
    \/ \E w \in Workers :
          \/ StartBook(w)
          \/ ValidatePatient(w)
          \/ ValidateDoctor(w)
          \/ CheckSlot(w)
          \/ Insert(w)
          \/ StartReschedule(w)
          \/ StartCancel(w)
          \/ StartComplete(w)
          \/ StartNoShow(w)
          \/ Select(w)
          \/ Update(w)
          \/ Commit(w)
          \/ Billing(w)
          \/ Finish(w)

Spec == Init /\ [][Next]_vars

SerialSpec == InitSerial /\ [][Next]_vars

\* the steps of a handler that the database or the handler itself
\* completes: the awaited query answers and the handler runs on
DatabaseStep(w) ==
    CheckSlot(w) \/ Insert(w) \/ Select(w) \/ Update(w) \/ Commit(w)

\* serial runs in which the database answers every query and every
\* response is sent; the patient, provider and billing services answer
\* when they choose to, or never: axios is called without a timeout
FairSerialSpec ==
    /\ InitSerial
    /\ [][Next]_vars
    /\ \A w \in Workers : WF_vars(DatabaseStep(w)) /\ WF_vars(Finish(w))

(***************************************************************************)
(* checkSlotConflict on its own: any table the unique index admits, any    *)
(* candidate.                                                              *)
(***************************************************************************)
\* the rows a table can hold under id i: the validator admits every pair
\* of HH:MM times
TableRows(i) ==
    {[id |-> i, patient |-> p, doctor |-> d, date |-> dt, start |-> s,
      end |-> e, status |-> st, count |-> 0, version |-> 1,
      notes |-> << >>] :
        p \in Patients, d \in Doctors, dt \in Dates, s \in Times,
        e \in Times, st \in Statuses}

InitConflict ==
    /\ appts \in [Ids -> UNION {TableRows(i) : i \in Ids} \cup {NoRow}]
    /\ \A i \in Ids : appts[i] # NoRow => appts[i] \in TableRows(i)
    /\ \A i, j \in Ids :
          (i # j /\ appts[i] # NoRow /\ appts[j] # NoRow)
          => ~SameKey(appts[i], appts[j])
    /\ nextId = MaxId + 1
    /\ now = T1030
    /\ pc = [w \in Workers |-> "idle"]
    /\ cmd = [w \in Workers |-> NoCmd]
    /\ loc = [w \in Workers |-> NoLoc]
    /\ started = 0
    /\ harness = "function"

\* const hasConflict = await this.checkSlotConflict(doctorId, date,
\* startTime, endTime, excludeId): the arguments are kept in cmd, the
\* result in loc
CallCheckSlotConflict ==
    /\ pc["w1"] = "idle"
    /\ \E d \in Doctors, dt \in Dates, s \in Times, e \in Times,
          x \in 0..MaxId :
          /\ cmd' = [cmd EXCEPT !["w1"] =
                       [op |-> "checkSlotConflict", id |-> x, patient |-> 0,
                        doctor |-> d, date |-> dt, start |-> s, end |-> e]]
          /\ loc' = [loc EXCEPT !["w1"].code =
                       IF checkSlotConflict(appts, d, dt, s, e, x)
                       THEN "SLOT_CONFLICT" ELSE "none"]
    /\ pc' = [pc EXCEPT !["w1"] = "done"]
    /\ UNCHANGED <<appts, nextId, now, started, harness>>

NextConflict == CallCheckSlotConflict

ConflictSpec == InitConflict /\ [][NextConflict]_vars

TypeOK ==
    /\ nextId \in 1..(MaxId + 1)
    /\ now \in Instants
    /\ \A i \in Ids : appts[i] # NoRow => appts[i].id = i
    /\ \A w \in Workers : pc[w] \in {"idle", "validatePatient",
          "validateDoctor", "checkSlot", "write", "select", "commit",
          "billing", "done"}
    /\ \A w \in Workers : loc[w].client \in {"none", "held", "released"}

(***************************************************************************)
(* Properties.                                                             *)
(***************************************************************************)
Stored == {i \in Ids : appts[i] # NoRow}

\* the half-open rule: [s1, e1) and [s2, e2) overlap iff s1 < e2 and s2 < e1
HalfOpenOverlap(s1, e1, s2, e2) == s1 < e2 /\ s2 < e1

SameProviderDay(r1, r2) == r1.doctor = r2.doctor /\ r1.date = r2.date

Terminates(w) == pc[w] # "done" /\ pc'[w] = "done"

\* C1: after any sequence of commands executed one at a time, no two
\* SCHEDULED appointments of the same provider and date have overlapping
\* half-open intervals.
C1_NoOverlapSerial ==
    \A i, j \in Stored :
        (/\ i < j
         /\ appts[i].status = "SCHEDULED"
         /\ appts[j].status = "SCHEDULED"
         /\ SameProviderDay(appts[i], appts[j]))
        => ~HalfOpenOverlap(appts[i].start, appts[i].end,
                            appts[j].start, appts[j].end)

\* two SCHEDULED appointments share a provider and a date, back to back,
\* one of them moved there by a reschedule
C1_Witness ==
    /\ harness = "serial"
    /\ \E i, j \in Stored :
          /\ i # j
          /\ appts[i].status = "SCHEDULED"
          /\ appts[j].status = "SCHEDULED"
          /\ SameProviderDay(appts[i], appts[j])
          /\ appts[i].end = appts[j].start
          /\ appts[i].count > 0

\* C2: under every interleaving of concurrent Book and Reschedule commands,
\* no two SCHEDULED appointments of one provider and date with well-formed
\* intervals overlap, also when their start times differ.
C2_NoOverlapConcurrent ==
    ~ \E i, j \in Stored :
          /\ i # j
          /\ appts[i].status = "SCHEDULED"
          /\ appts[j].status = "SCHEDULED"
          /\ SameProviderDay(appts[i], appts[j])
          /\ appts[i].start < appts[i].end
          /\ appts[j].start < appts[j].end
          /\ appts[i].start # appts[j].start
          /\ HalfOpenOverlap(appts[i].start, appts[i].end,
                             appts[j].start, appts[j].end)

\* C3: a Book in the future (end_time after start_time) whose patient and
\* provider exist and for which the conflict check reported no conflict
\* succeeds and inserts a row with
\* status SCHEDULED, version 1 and rescheduleCount 0, whatever CANCELLED or
\* COMPLETED rows are stored.
C3_BookSucceeds ==
    \A w \in Workers :
        (/\ pc[w] = "done"
         /\ cmd[w].op = "book"
         /\ cmd[w].start < cmd[w].end
         /\ loc[w].doctor = "named"
         /\ loc[w].code \notin {"INVALID_DATE", "SLOT_CONFLICT"})
        => /\ loc[w].code = "OK"
           /\ loc[w].data.id \in Stored
           /\ loc[w].data.status = "SCHEDULED"
           /\ loc[w].data.version = 1
           /\ loc[w].data.count = 0

\* C4 as stated: a Book whose date and start time are at or before the
\* current instant ends with INVALID_DATE and inserts no row.
C4_PastBookInvalidDate ==
    [][\A w \in Workers :
          (/\ cmd[w].op = "book"
           /\ pc[w] \in {"validatePatient", "validateDoctor"}
           /\ Terminates(w)
           /\ DateTime(cmd[w].date, cmd[w].start) <= now)
          => /\ loc'[w].code = "INVALID_DATE"
             /\ appts' = appts]_vars

\* C4 as amended: a Book whose patient and provider checks have succeeded
\* and whose date and start time are at or before the current instant ends
\* with INVALID_DATE and inserts no row.
C4_PastBookInvalidDateAfterChecks ==
    [][\A w \in Workers :
          (/\ cmd[w].op = "book"
           /\ pc[w] = "validateDoctor"
           /\ loc'[w].doctor \in {"named", "undefined"}
           /\ DateTime(cmd[w].date, cmd[w].start) <= now)
          => /\ pc'[w] = "done"
             /\ loc'[w].code = "INVALID_DATE"
             /\ appts' = appts]_vars

\* a Book for exactly the present instant has been rejected
C4_Witness ==
    \E w \in Workers :
        /\ pc[w] = "done"
        /\ cmd[w].op = "book"
        /\ loc[w].code = "INVALID_DATE"
        /\ DateTime(cmd[w].date, cmd[w].start) = now

\* C5: with a SCHEDULED appointment [s1, e1) stored, a later Book for the
\* same provider and date with a future interval [s2, e2) (collaborator
\* checks passed) ends with SLOT_CONFLICT when s1 < e2 and s2 < e1, and
\* succeeds when the two only touch and no other appointment overlaps.
C5_OverlapConflictsAdjacentBooks ==
    \A w \in Workers :
        (/\ pc[w] = "done"
         /\ cmd[w].op = "book"
         /\ loc[w].doctor = "named"
         /\ loc[w].code # "INVALID_DATE"
         /\ cmd[w].start < cmd[w].end)
        => LET c == cmd[w]
               others == {i \in Stored :
                            /\ i # loc[w].data.id
                            /\ appts[i].doctor = c.doctor
                            /\ appts[i].date = c.date
                            /\ appts[i].start < appts[i].end}
               scheduled == {i \in others : appts[i].status = "SCHEDULED"}
               Hits(i) == HalfOpenOverlap(appts[i].start, appts[i].end,
                                          c.start, c.end)
           IN /\ (\E i \in scheduled : Hits(i))
                    => loc[w].code = "SLOT_CONFLICT"
              /\ (/\ \E i \in scheduled :
                         c.start = appts[i].end \/ c.end = appts[i].start
                  /\ \A i \in others : ~Hits(i))
                    => loc[w].code = "OK"

\* a Book next to a SCHEDULED appointment of the same provider and date
\* has succeeded
C5_Witness ==
    /\ harness = "serial"
    /\ \E w \in Workers :
          /\ pc[w] = "done"
          /\ cmd[w].op = "book"
          /\ loc[w].code = "OK"
          /\ \E i \in Stored :
                /\ i # loc[w].data.id
                /\ appts[i].status = "SCHEDULED"
                /\ SameProviderDay(appts[i], cmd[w])
                /\ cmd[w].start = appts[i].end

\* C6: a Reschedule of a SCHEDULED appointment with rescheduleCount = 2
\* ends with MAX_RESCHEDULE_EXCEEDED and changes nothing, whatever the
\* appointment time, the requested time and the current instant are.
C6_ThirdRescheduleRejected ==
    [][\A w \in Workers :
          (/\ cmd[w].op = "reschedule"
           /\ pc[w] = "select"
           /\ pc'[w] # "select"
           /\ appts[cmd[w].id].status = "SCHEDULED"
           /\ appts[cmd[w].id].count = 2)
          => /\ pc'[w] = "done"
             /\ loc'[w].code = "MAX_RESCHEDULE_EXCEEDED"
             /\ appts' = appts]_vars

\* a third Reschedule has been rejected less than an hour before the
\* appointment
C6_Witness ==
    \E w \in Workers :
        /\ pc[w] = "done"
        /\ cmd[w].op = "reschedule"
        /\ loc[w].code = "MAX_RESCHEDULE_EXCEEDED"
        /\ appts[cmd[w].id].status = "SCHEDULED"
        /\ appts[cmd[w].id].count = 2
        /\ DateTime(appts[cmd[w].id].date, appts[cmd[w].id].start) - now
              < HourMs

\* C7: in every reachable state, also with concurrent Reschedules of one
\* appointment, rescheduleCount of every appointment is between 0 and 2.
C7_CountAtMostTwo ==
    \A i \in Stored : appts[i].count >= 0 /\ appts[i].count <= 2

\* C8: a Reschedule of a SCHEDULED appointment with rescheduleCount < 2
\* ends with CUTOFF_TIME_EXCEEDED exactly when less than one hour remains
\* to the current appointment time, whatever the requested time is.
C8_CutoffExactlyBelowOneHour ==
    [][\A w \in Workers :
          (/\ cmd[w].op = "reschedule"
           /\ pc[w] = "select"
           /\ pc'[w] # "select"
           /\ appts[cmd[w].id].status = "SCHEDULED"
           /\ appts[cmd[w].id].count < 2)
          => (loc'[w].code = "CUTOFF_TIME_EXCEEDED"
                <=> DateTime(appts[cmd[w].id].date, appts[cmd[w].id].start)
                      - now < HourMs)]_vars

\* a Reschedule has passed the cutoff check with exactly one hour to go
C8_Witness ==
    \E w \in Workers :
        /\ pc[w] = "checkSlot"
        /\ cmd[w].op = "reschedule"
        /\ DateTime(appts[cmd[w].id].date, appts[cmd[w].id].start) - now
              = HourMs

\* C9: the refund tier of a Cancel is FULL_REFUND when at least 24 hours
\* remain, PARTIAL_REFUND from 6 hours up to 24, CANCELLATION_FEE below 6
\* hours (also when the time has passed), and the success response returns
\* that tier and no other value.
C9_RefundStepFunction ==
    [][\A w \in Workers :
          /\ (cmd[w].op = "cancel" /\ pc[w] = "write" /\ pc'[w] = "commit")
             => LET diff == DateTime(loc[w].existing.date,
                                     loc[w].existing.start) - now
                IN /\ diff >= 24 * HourMs
                        => loc'[w].refund = "FULL_REFUND"
                   /\ (diff >= 6 * HourMs /\ diff < 24 * HourMs)
                        => loc'[w].refund = "PARTIAL_REFUND"
                   /\ diff < 6 * HourMs
                        => loc'[w].refund = "CANCELLATION_FEE"
          /\ (cmd[w].op = "cancel" /\ Terminates(w) /\ loc'[w].code = "OK")
             => /\ loc'[w].refund = loc[w].refund
                /\ loc'[w].refund \in {"FULL_REFUND", "PARTIAL_REFUND",
                                       "CANCELLATION_FEE"}]_vars

\* a Cancel exactly six hours ahead has returned PARTIAL_REFUND
C9_Witness ==
    \E w \in Workers :
        /\ pc[w] = "done"
        /\ cmd[w].op = "cancel"
        /\ loc[w].code = "OK"
        /\ loc[w].refund = "PARTIAL_REFUND"
        /\ DateTime(loc[w].data.date, loc[w].data.start) - now = 6 * HourMs

\* C10: a Cancel of an appointment that is already CANCELLED ends with
\* INVALID_STATUS and leaves the appointment unchanged.
C10_SecondCancelInvalidStatus ==
    [][\A w \in Workers :
          (/\ cmd[w].op = "cancel"
           /\ pc[w] = "select"
           /\ pc'[w] # "select"
           /\ appts[cmd[w].id].status = "CANCELLED")
          => /\ pc'[w] = "done"
             /\ loc'[w].code = "INVALID_STATUS"
             /\ appts' = appts]_vars

\* the step in which worker w leaves position p
Leaves(w, p) == pc[w] = p /\ pc'[w] # p

\* C11: a Complete that reads a SCHEDULED appointment goes on to write and
\* commit status COMPLETED; a Complete that reads the appointment once it
\* is COMPLETED ends with INVALID_STATUS, leaves the store unchanged and
\* has issued no billing request.
C11_CompleteOnceThenRejected ==
    [][\A w \in Workers :
          cmd[w].op = "complete" =>
             /\ (Leaves(w, "select") /\ appts[cmd[w].id].status = "SCHEDULED")
                => pc'[w] = "write"
             /\ Leaves(w, "write")
                => pc'[w] = "commit" /\ loc'[w].data.status = "COMPLETED"
             /\ Leaves(w, "commit")
                => /\ appts'[cmd[w].id].status = "COMPLETED"
                   /\ pc'[w] = "billing"
             /\ (Leaves(w, "select") /\ appts[cmd[w].id].status = "COMPLETED")
                => /\ pc'[w] = "done"
                   /\ loc'[w].code = "INVALID_STATUS"
                   /\ loc'[w].sent = {}
                   /\ appts' = appts]_vars

\* a second Complete of a completed appointment has been rejected
C11_Witness ==
    \E w \in Workers :
        /\ pc[w] = "done"
        /\ cmd[w].op = "complete"
        /\ loc[w].code = "INVALID_STATUS"
        /\ loc[w].sent = {}
        /\ appts[cmd[w].id].status = "COMPLETED"

\* C12: of two Complete commands that run concurrently on the same
\* appointment at most one ends with success and at most one has sent the
\* consultation billing request.
C12_OneCompleteOneBill ==
    \A w, v \in Workers :
        (/\ w # v
         /\ cmd[w].op = "complete"
         /\ cmd[v].op = "complete"
         /\ cmd[w].id = cmd[v].id)
        => /\ ~(loc[w].code = "OK" /\ loc[v].code = "OK")
           /\ ~("billing" \in loc[w].sent /\ "billing" \in loc[v].sent)

TerminalStatuses == {"COMPLETED", "CANCELLED", "NO_SHOW"}

\* C13: a Reschedule, Cancel, Complete or No-show that reads an
\* appointment whose status is COMPLETED, CANCELLED or NO_SHOW ends with
\* INVALID_STATUS.
C13_TerminalStatusRejected ==
    [][\A w \in Workers :
          (/\ cmd[w].op \in {"reschedule", "cancel", "complete", "noshow"}
           /\ Leaves(w, "select")
           /\ appts[cmd[w].id].status \in TerminalStatuses)
          => /\ pc'[w] = "done"
             /\ loc'[w].code = "INVALID_STATUS"]_vars

\* C14: in every step, under every interleaving of two workers, an
\* appointment whose status is not SCHEDULED keeps a status that is not
\* SCHEDULED.
C14_NeverBackToScheduled ==
    [][\A i \in Stored :
          appts[i].status # "SCHEDULED"
          => appts'[i] # NoRow /\ appts'[i].status # "SCHEDULED"]_vars

\* a Reschedule has updated and committed a row that had already left
\* SCHEDULED
C14_Witness ==
    \E w \in Workers :
        /\ pc[w] = "done"
        /\ cmd[w].op = "reschedule"
        /\ loc[w].code = "OK"
        /\ loc[w].data.status \in TerminalStatuses
        /\ appts[cmd[w].id].status \in TerminalStatuses

\* C15: the COMMIT of a Book stores its row with version 1, the COMMIT of
\* a Reschedule, Cancel, Complete or No-show raises the version of its
\* appointment by exactly 1, and no step lowers a version.
C15_VersionCountsMutations ==
    [][/\ \A w \in Workers :
             Leaves(w, "commit") =>
                IF cmd[w].op = "book"
                THEN appts'[loc[w].data.id].version = 1
                ELSE appts'[cmd[w].id].version
                        = appts[cmd[w].id].version + 1
       /\ \A i \in Stored : appts'[i].version >= appts[i].version]_vars

\* C16: in a Book, a 404 answer of the patient service ends the command
\* with PATIENT_NOT_FOUND, a 404 answer of the provider service with
\* DOCTOR_NOT_FOUND, any other failure of either call with
\* SERVICE_UNAVAILABLE; the command has written no row and the store is
\* unchanged.
C16_ValidationFailsClosed ==
    [][\A w \in Workers :
          cmd[w].op = "book" =>
             /\ Leaves(w, "validatePatient") =>
                   /\ loc'[w].patient = "404"
                         => loc'[w].code = "PATIENT_NOT_FOUND"
                   /\ loc'[w].patient = "error"
                         => loc'[w].code = "SERVICE_UNAVAILABLE"
                   /\ loc'[w].patient # "ok"
                         => /\ pc'[w] = "done"
                            /\ loc'[w].data = NoRow
                            /\ appts' = appts
                            /\ nextId' = nextId
             /\ Leaves(w, "validateDoctor") =>
                   /\ loc'[w].doctor = "404"
                         => loc'[w].code = "DOCTOR_NOT_FOUND"
                   /\ loc'[w].doctor = "error"
                         => loc'[w].code = "SERVICE_UNAVAILABLE"
                   /\ loc'[w].doctor \in {"404", "error"}
                         => /\ pc'[w] = "done"
                            /\ loc'[w].data = NoRow
                            /\ appts' = appts
                            /\ nextId' = nextId]_vars

\* a Book whose provider was not found has ended with DOCTOR_NOT_FOUND
\* after a successful patient check
C16_Witness ==
    \E w \in Workers :
        /\ pc[w] = "done"
        /\ cmd[w].op = "book"
        /\ loc[w].patient = "ok"
        /\ loc[w].doctor = "404"
        /\ loc[w].code = "DOCTOR_NOT_FOUND"
        /\ loc[w].data = NoRow

\* C17: while a Book is waiting for, or has just been failed by, its
\* patient or provider check, it has not opened its transaction: BEGIN
\* comes only after both checks have succeeded.
C17_BeginAfterValidation ==
    \A w \in Workers :
        cmd[w].op = "book" =>
           /\ pc[w] \in {"validatePatient", "validateDoctor"}
                 => loc[w].txn = "none"
           /\ (pc[w] = "done"
               /\ (loc[w].patient \in {"404", "error"}
                   \/ loc[w].doctor \in {"404", "error"}))
                 => loc[w].txn = "none"

\* C18: a command whose transaction has committed ends with a success
\* response, whatever the billing service answers and whichever
\* descriptor the provider service returned, and the row it committed
\* stays as committed while the command runs on.
C18_NoErrorAfterCommit ==
    \A w \in Workers :
        loc[w].txn = "committed" =>
           /\ appts[loc[w].data.id] = loc[w].data
           /\ pc[w] = "done" => loc[w].code = "OK"

\* C19: a command that has issued a billing or notification request has
\* committed its transaction; a command that has ended with its
\* transaction rolled back has issued none.
C19_RequestsOnlyAfterCommit ==
    \A w \in Workers :
        /\ loc[w].sent # {} => loc[w].txn = "committed"
        /\ (pc[w] = "done" /\ loc[w].txn = "rolledback") => loc[w].sent = {}
        /\ (pc[w] = "done" /\ loc[w].code \notin {"OK", "TYPE_ERROR"})
              => loc[w].txn = "rolledback"

\* a Cancel has committed and has then issued its billing request and its
\* notification
C19_Witness ==
    \E w \in Workers :
        /\ pc[w] = "done"
        /\ cmd[w].op = "cancel"
        /\ loc[w].txn = "committed"
        /\ loc[w].sent = {"billing", "notification"}

\* the error codes thrown before COMMIT
TxnErrors ==
    {"PATIENT_NOT_FOUND", "DOCTOR_NOT_FOUND", "APPOINTMENT_NOT_FOUND",
     "SLOT_CONFLICT", "MAX_RESCHEDULE_EXCEEDED", "CUTOFF_TIME_EXCEEDED",
     "INVALID_STATUS", "ALREADY_CANCELLED", "INVALID_DATE",
     "SERVICE_UNAVAILABLE", "UNIQUE_VIOLATION"}

\* C20: with commands run one at a time, the store changes only in the
\* step that commits a transaction, and a command that ends with an
\* error thrown before COMMIT ends with its transaction still open and
\* then rolled back, so from its start to its end every stored
\* appointment and every field is as it was.
C20_ErrorLeavesStoreUnchanged ==
    [][/\ appts' # appts
          => \E w \in Workers :
                /\ loc[w].txn = "open"
                /\ loc'[w].txn = "committed"
                /\ loc'[w].code \notin TxnErrors
       /\ \A w \in Workers :
             (Terminates(w) /\ loc'[w].code \in TxnErrors)
             => /\ loc[w].txn = "open"
                /\ loc'[w].txn = "rolledback"
                /\ appts' = appts]_vars

\* a Reschedule onto a taken slot has ended with SLOT_CONFLICT and its
\* appointment is as booked
C20_Witness ==
    \E w \in Workers :
        /\ pc[w] = "done"
        /\ cmd[w].op = "reschedule"
        /\ loc[w].code = "SLOT_CONFLICT"
        /\ loc[w].txn = "rolledback"
        /\ appts[cmd[w].id].count = 0
        /\ appts[cmd[w].id].version = 1
        /\ appts[cmd[w].id].start # cmd[w].start

\* C21: every command that has been started eventually has its response,
\* also when the patient, provider or billing service never answers.
C21_EveryCommandReturns ==
    \A w \in Workers : (pc[w] # "idle") ~> (pc[w] = "done")

\* the provider whose day CheckSlot scans for worker w
CheckedDoctor(w) ==
    IF cmd[w].op = "book" THEN cmd[w].doctor ELSE loc[w].existing.doctor

\* the stored rows of that provider and date, other than the appointment
\* being rescheduled
SameDayRows(w) ==
    {i \in Stored : /\ appts[i].doctor = CheckedDoctor(w)
                    /\ appts[i].date = cmd[w].date
                    /\ i # cmd[w].id}

\* C22: the conflict check of a Book or Reschedule ends with
\* SLOT_CONFLICT when a NO_SHOW appointment of the same provider and date
\* overlaps the requested interval, and finds no conflict when every
\* other appointment of that provider and date is CANCELLED or COMPLETED.
C22_NoShowBlocksSlot ==
    [][\A w \in Workers :
          Leaves(w, "checkSlot") =>
             /\ (\E i \in SameDayRows(w) :
                    /\ appts[i].status = "NO_SHOW"
                    /\ HalfOpenOverlap(appts[i].start, appts[i].end,
                                       cmd[w].start, cmd[w].end))
                => pc'[w] = "done" /\ loc'[w].code = "SLOT_CONFLICT"
             /\ (\A i \in SameDayRows(w) :
                    appts[i].status \in {"CANCELLED", "COMPLETED"})
                => pc'[w] = "write"]_vars

\* a Book has ended with SLOT_CONFLICT while the only stored appointment
\* of its provider and date is NO_SHOW
C22_Witness ==
    \E w \in Workers :
        /\ pc[w] = "done"
        /\ cmd[w].op = "book"
        /\ loc[w].code = "SLOT_CONFLICT"
        /\ SameDayRows(w) # {}
        /\ \A i \in SameDayRows(w) : appts[i].status = "NO_SHOW"

\* C23: every stored appointment has its end time strictly after its
\* start time, and a row written by a Book or Reschedule and not yet
\* committed has too.
C23_EndAfterStart ==
    /\ \A i \in Stored : appts[i].start < appts[i].end
    /\ \A w \in Workers :
          Pending(w) # NoRow => Pending(w).start < Pending(w).end

\* C24: under every interleaving of two workers, no step changes the
\* status, date, start time, end time or reschedule count of an
\* appointment whose committed status is CANCELLED or COMPLETED.
C24_TerminalRowFrozen ==
    [][\A i \in Stored :
          appts[i].status \in {"CANCELLED", "COMPLETED"}
          => /\ appts'[i].status = appts[i].status
             /\ appts'[i].date = appts[i].date
             /\ appts'[i].start = appts[i].start
             /\ appts'[i].end = appts[i].end
             /\ appts'[i].count = appts[i].count]_vars

\* C25: the COMMIT of a Reschedule keeps the appointment's id, patient,
\* provider and status, stores the requested date, start and end time,
\* raises reschedule count and version by exactly 1 each, changes no
\* other appointment, and the command ends with success.
C25_RescheduleInPlace ==
    [][\A w \in Workers :
          (cmd[w].op = "reschedule" /\ Leaves(w, "commit"))
          => LET old == appts[cmd[w].id]
                 new == appts'[cmd[w].id]
             IN /\ new.id = old.id
                /\ new.patient = old.patient
                /\ new.doctor = old.doctor
                /\ new.status = old.status
                /\ new.date = cmd[w].date
                /\ new.start = cmd[w].start
                /\ new.end = cmd[w].end
                /\ new.count = old.count + 1
                /\ new.version = old.version + 1
                /\ \A j \in Ids : j # cmd[w].id => appts'[j] = appts[j]
                /\ pc'[w] = "done"
                /\ loc'[w].code = "OK"
                /\ loc'[w].data = new]_vars

\* a first Reschedule has succeeded while a second appointment is stored
C25_Witness ==
    \E w \in Workers :
        /\ pc[w] = "done"
        /\ cmd[w].op = "reschedule"
        /\ loc[w].code = "OK"
        /\ appts[cmd[w].id].count = 1
        /\ appts[cmd[w].id].version = 2
        /\ appts[cmd[w].id].start = cmd[w].start
        /\ appts[cmd[w].id].end = cmd[w].end
        /\ Cardinality(Stored) = 2

\* the status each status-changing command writes
WrittenStatus(op) ==
    CASE op = "cancel" -> "CANCELLED"
      [] op = "complete" -> "COMPLETED"
      [] op = "noshow" -> "NO_SHOW"

\* C26: the COMMIT of a Cancel, Complete or No-show changes the status of
\* its appointment and, apart from the notes, nothing else: version,
\* reschedule count, date and times stay; and the version of a stored
\* appointment changes only in the COMMIT of a Reschedule.
C26_OnlyRescheduleBumpsVersion ==
    [][/\ \A w \in Workers :
             (cmd[w].op \in {"cancel", "complete", "noshow"}
              /\ Leaves(w, "commit"))
             => appts' = [appts EXCEPT
                            ![cmd[w].id].status = WrittenStatus(cmd[w].op),
                            ![cmd[w].id].notes = appts'[cmd[w].id].notes]
       /\ \A i \in Stored :
             appts'[i].version # appts[i].version
             => \E w \in Workers : /\ cmd[w].op = "reschedule"
                                   /\ cmd[w].id = i
                                   /\ Leaves(w, "commit")]_vars

\* a Complete of an appointment that was rescheduled once has succeeded
\* and the appointment still has version 2 and reschedule count 1
C26_Witness ==
    \E w \in Workers :
        /\ pc[w] = "done"
        /\ cmd[w].op = "complete"
        /\ loc[w].code = "OK"
        /\ appts[cmd[w].id].status = "COMPLETED"
        /\ appts[cmd[w].id].version = 2
        /\ appts[cmd[w].id].count = 1

\* the half-open rule applied to a table: some stored appointment of the
\* provider and date, not CANCELLED or COMPLETED and not the excluded
\* one, overlaps the candidate interval
HalfOpenConflict(rows, c) ==
    \E i \in Ids :
        /\ rows[i] # NoRow
        /\ rows[i].doctor = c.doctor
        /\ rows[i].date = c.date
        /\ rows[i].status \notin {"CANCELLED", "COMPLETED"}
        /\ i # c.id
        /\ HalfOpenOverlap(rows[i].start, rows[i].end, c.start, c.end)

\* C27: for every table, also one holding rows whose end time is not
\* after their start time, and every candidate, checkSlotConflict
\* reports a conflict exactly when the half-open rule does.
C27_ConflictIsHalfOpenRule ==
    \A w \in Workers :
        (pc[w] = "done" /\ cmd[w].op = "checkSlotConflict")
        => (loc[w].code = "SLOT_CONFLICT"
               <=> HalfOpenConflict(appts, cmd[w]))

\* text a is a prefix of text b (texts as sequences of lines)
IsPrefix(a, b) == Len(a) <= Len(b) /\ SubSeq(b, 1, Len(a)) = a

\* C28: the COMMIT of a Reschedule, Cancel or Complete stores notes that
\* begin with the notes stored before it, and the COMMIT of a No-show
\* stores the notes unchanged.
C28_NotesAppendOnly ==
    [][\A w \in Workers :
          Leaves(w, "commit") =>
             /\ cmd[w].op \in {"reschedule", "cancel", "complete"}
                => /\ IsPrefix(appts[cmd[w].id].notes,
                               appts'[cmd[w].id].notes)
                   /\ Len(appts'[cmd[w].id].notes)
                         = Len(appts[cmd[w].id].notes) + 1
             /\ cmd[w].op = "noshow"
                => appts'[cmd[w].id].notes = appts[cmd[w].id].notes]_vars

\* a Complete has succeeded on an appointment that had been rescheduled
\* twice, and its notes hold the three entries in that order
C28_Witness ==
    \E w \in Workers :
        /\ pc[w] = "done"
        /\ cmd[w].op = "complete"
        /\ loc[w].code = "OK"
        /\ appts[cmd[w].id].notes
              = <<"Rescheduled", "Rescheduled", "Completion notes">>

\* C29: when a Book, or a Reschedule of another appointment, asks for
\* the provider, date, start and end time of a CANCELLED or COMPLETED
\* appointment, and every stored appointment with that provider, date
\* and start time is CANCELLED or COMPLETED, then its write, made after
\* the date and conflict checks have passed, succeeds and the command
\* goes on to its COMMIT.
C29_TerminalRowFreesSlot ==
    [][\A w \in Workers :
          (/\ cmd[w].op \in {"book", "reschedule"}
           /\ Leaves(w, "write")
           /\ cmd[w].start < cmd[w].end
           /\ \E i \in SameDayRows(w) :
                 /\ appts[i].status \in {"CANCELLED", "COMPLETED"}
                 /\ appts[i].start = cmd[w].start
                 /\ appts[i].end = cmd[w].end
           /\ \A i \in SameDayRows(w) :
                 appts[i].start = cmd[w].start
                 => appts[i].status \in {"CANCELLED", "COMPLETED"})
          => /\ pc'[w] = "commit"
             /\ loc'[w].data.start = cmd[w].start
             /\ loc'[w].data.end = cmd[w].end]_vars

\* C30: under every interleaving of two workers, the refund tier a
\* Cancel computes, returns and sends to billing is the tier, at the
\* instant it is computed, of the date and start time of the row its
\* UPDATE returned.
C30_RefundMatchesReturnedRow ==
    [][\A w \in Workers :
          (cmd[w].op = "cancel" /\ Leaves(w, "write")
           /\ pc'[w] = "commit")
          => loc'[w].refund
                = RefundPolicy(DateTime(loc'[w].data.date,
                                        loc'[w].data.start), now)]_vars

\* C31: every pooled client taken by a Book, Reschedule, Cancel, Complete
\* or No-show is given back exactly once on every path: it is released
\* only while held, it has been released when the response is sent, and,
\* as long as the patient and provider services answer, a held client is
\* eventually released whether or not the billing or the notification
\* service ever answers.
C31_ClientReleasedOnce ==
    /\ [][\A w \in Workers :
             (loc'[w].client = "released" /\ loc[w].client # "released")
             => loc[w].client = "held"]_vars
    /\ [](\A w \in Workers : pc[w] = "done" => loc[w].client = "released")
    /\ \A w \in Workers :
          \/ <>[](pc[w] \in {"validatePatient", "validateDoctor"})
          \/ (loc[w].client = "held") ~> (loc[w].client = "released")

====
